---- MODULE Spec2Model ----
(***************************************************************************)
(* A model of ptp-stats (src/main.py): the command-line entry point, the   *)
(* orchestrator main(), the file parser parse_file() and the helpers it    *)
(* calls (run_shapiro_wilk, create_plot, run_mannwhiteneyu_test).          *)
(*                                                                         *)
(* Two specifications:                                                     *)
(*   Spec      the whole process: entry point, the two parse loops and the *)
(*             compare loop of main(), one step per loop iteration;        *)
(*   SpecUnit  one call of parse_file() stepped line by line, or one       *)
(*             direct call of run_shapiro_wilk(), on a bounded input.      *)
(*                                                                         *)
(* Abstractions: a log line is the outcome of re_pattern.search on it (no  *)
(* match, or the three captured digit strings); numbers are the integers   *)
(* the captured strings denote; the numeric values of mean, standard       *)
(* deviation, test statistics and p-values are not modelled, only the fact *)
(* that they were computed and printed.  The plots directory is empty when *)
(* the process starts.                                                     *)
(***************************************************************************)
EXTENDS Integers, Sequences, FiniteSets, TLC

VARIABLES
    argc,                       \* len(sys.argv)
    pc,                         \* position of the process
    experimental_path,          \* "None" or "given": main's second parameter
    i,                          \* index of the next element of the running for loop
    control_offset_data, control_delay_data,
    experimental_offset_data, experimental_delay_data,
    out,                        \* everything printed so far
    plots,                      \* the files under plots/: path -> content
    opened,                     \* history: every open() of a log file and what it found
    mwu_calls,                  \* history: every call of run_mannwhiteneyu_test
    exitCode,                   \* -1 while running, then the exit status
    uncaught,                   \* "none" or the exception that ended the process
    pf_pc, pf_name, pf_file, pf_lines, pf_k, offsets, delays, pf_ret,
                                \* the frame of one parse_file call (SpecUnit)
    sample                      \* the argument of a direct run_shapiro_wilk call

vars == <<argc, pc, experimental_path, i, control_offset_data, control_delay_data,
          experimental_offset_data, experimental_delay_data, out, plots, opened,
          mwu_calls, exitCode, uncaught,
          pf_pc, pf_name, pf_file, pf_lines, pf_k, offsets, delays, pf_ret, sample>>

mainVars == <<argc, pc, experimental_path, i, control_offset_data, control_delay_data,
              experimental_offset_data, experimental_delay_data, opened,
              mwu_calls, exitCode, uncaught>>

unitVars == <<pf_pc, pf_name, pf_file, pf_lines, pf_k, offsets, delays, pf_ret, sample>>

----------------------------------------------------------------------------
(* Bounds *)

MaxArgc == 5       \* len(sys.argv) ranges over 1..MaxArgc
MaxLines == 3      \* lines per log file in SpecUnit
MaxSample == 4     \* length of the sample of a direct run_shapiro_wilk call

----------------------------------------------------------------------------
(* Hosts, log lines, files *)

\* main.py:101-106 and 125-130: the machines lists, in order
Machines == <<"Beta", "Charlie", "Delta", "Echo">>

Hosts == {Machines[n] : n \in DOMAIN Machines}

\* str.lower() on the names main.py passes to create_plot
Lower(s) ==
    CASE s = "Beta" -> "beta"
      [] s = "Charlie" -> "charlie"
      [] s = "Delta" -> "delta"
      [] s = "Echo" -> "echo"
      [] s = "Offset" -> "offset"
      [] s = "Delay" -> "delay"
      [] OTHER -> s

\* A line is what re_pattern.search finds in it: nothing, or groups 1..3 as
\* strings of characters.
OtherLine == [text |-> "other", g1 |-> <<>>, g2 |-> <<>>, g3 |-> <<>>]
PtpLine(o, f, d) == [text |-> "ptp4l", g1 |-> o, g2 |-> f, g3 |-> d]

LineA == PtpLine(<<"-", "5">>, <<"+", "9">>, <<"2", "0">>)
LineB == PtpLine(<<"1", "0">>, <<"-", "4">>, <<"0", "7">>)
LineC == PtpLine(<<"+", "3">>, <<"8">>, <<"1">>)

Missing == [exists |-> FALSE, lines |-> <<>>]
File(ls) == [exists |-> TRUE, lines |-> ls]

SeqsUpTo(S, n) == UNION {[1..m -> S] : m \in 0..n}

\* the log files of SpecUnit
UnitLines == {OtherLine, LineA, LineB, LineC}
UnitFiles == {Missing} \cup {File(ls) : ls \in SeqsUpTo(UnitLines, MaxLines)}

\* the log files of Spec: missing, without a matching line, with matching lines.
\* No experimental log holds the data of a control log, so that a sequence shows
\* which dataset it came from.
ControlFiles == {Missing, File(<<OtherLine>>), File(<<LineA>>),
                 File(<<LineB, OtherLine, LineC>>)}
ExperimentalFiles == {Missing, File(<<>>), File(<<LineC, LineA>>)}

----------------------------------------------------------------------------
(* Python values *)

NoneResult == [isNone |-> TRUE, offset_data |-> <<>>, delay_data |-> <<>>]
Pair(o, d) == [isNone |-> FALSE, offset_data |-> o, delay_data |-> d]

\* one print() call: what is printed, about what, and the number shown (if any)
Ev(tag, label, arg) == [tag |-> tag, label |-> label, text |-> "", arg |-> arg]
ErrEv(name, err) == [tag |-> "error", label |-> name, text |-> err, arg |-> 0]

\* dict: insertion-ordered sequence of key/value entries
DictHas(d, k) == \E n \in DOMAIN d : d[n].key = k
DictGet(d, k) == d[CHOOSE n \in DOMAIN d : d[n].key = k].val
DictSet(d, k, v) ==
    IF DictHas(d, k)
    THEN [n \in DOMAIN d |-> IF d[n].key = k THEN [key |-> k, val |-> v] ELSE d[n]]
    ELSE Append(d, [key |-> k, val |-> v])
DictKeys(d) == [n \in DOMAIN d |-> d[n].key]

DigitVal(c) ==
    CASE c = "0" -> 0 [] c = "1" -> 1 [] c = "2" -> 2 [] c = "3" -> 3 [] c = "4" -> 4
      [] c = "5" -> 5 [] c = "6" -> 6 [] c = "7" -> 7 [] c = "8" -> 8 [] c = "9" -> 9

RECURSIVE DigitsVal(_)
DigitsVal(s) ==
    IF s = <<>> THEN 0
    ELSE 10 * DigitsVal(SubSeq(s, 1, Len(s) - 1)) + DigitVal(s[Len(s)])

\* float() of a captured group: optional sign, then decimal digits
Float(s) ==
    IF s[1] = "-" THEN 0 - DigitsVal(Tail(s))
    ELSE IF s[1] = "+" THEN DigitsVal(Tail(s))
    ELSE DigitsVal(s)

RECURSIVE SeqMin(_)
SeqMin(s) ==
    IF Len(s) = 1 THEN s[1]
    ELSE LET m == SeqMin(Tail(s)) IN IF s[1] < m THEN s[1] ELSE m

RECURSIVE SeqMax(_)
SeqMax(s) ==
    IF Len(s) = 1 THEN s[1]
    ELSE LET m == SeqMax(Tail(s)) IN IF s[1] > m THEN s[1] ELSE m

----------------------------------------------------------------------------
(* The helpers of parse_file *)

\* create_plot without the lower() of the device name
create_plot_keeps_case(data, device_name, plot_type) ==
    [path |-> <<"plots", device_name, Lower(plot_type)>>,
     content |-> [title |-> <<device_name, plot_type>>,
                  data |-> data,
                  ylim |-> <<SeqMin(data), SeqMax(data)>>]]

\* main.py:13-28.  The file written: its path and what it shows.
create_plot(data, device_name, plot_type) ==
    [path |-> <<"plots", Lower(device_name), Lower(plot_type)>>,
     content |-> [title |-> <<device_name, plot_type>>,
                  data |-> data,
                  ylim |-> <<SeqMin(data), SeqMax(data)>>]]

\* main.py:7-8
create_offset_plot(data, device_name) == create_plot(data, device_name, "Offset")

\* main.py:10-11
create_delay_plot(data, device_name) == create_plot(data, device_name, "Delay")

\* plt.savefig(filename): creates or overwrites the file
SaveFig(fs, w) ==
    [p \in (DOMAIN fs) \cup {w.path} |-> IF p = w.path THEN w.content ELSE fs[p]]

RECURSIVE SaveAll(_, _)
SaveAll(fs, ws) == IF ws = <<>> THEN fs ELSE SaveAll(SaveFig(fs, Head(ws)), Tail(ws))

\* run_shapiro_wilk with the size test off by one
run_shapiro_wilk_below_two(data, label) ==
    IF Len(data) < 2
    THEN <<Ev("shapiro_not_enough_data", label, 0)>>
    ELSE <<Ev("shapiro_test", label, Len(data)),
           Ev("shapiro_statistic", label, 0),
           Ev("shapiro_verdict", label, 0)>>

\* main.py:30-43.  What the call prints.
run_shapiro_wilk(data, label) ==
    IF Len(data) < 3
    THEN <<Ev("shapiro_not_enough_data", label, 0)>>
    ELSE <<Ev("shapiro_test", label, Len(data)),
           Ev("shapiro_statistic", label, 0),
           Ev("shapiro_verdict", label, 0)>>

\* main.py:45-53.  What the call prints.
run_mannwhiteneyu_test(data1, data2, label) ==
    <<Ev("mannwhitneyu_test", label, 0),
      Ev("mannwhitneyu_statistic", label, 0),
      Ev("mannwhitneyu_verdict", label, 0)>>

\* main.py:79-83 and 87-91: header, mean, min, max, standard deviation
print_stats(data, label) ==
    <<Ev("stats", label, Len(data)),
      Ev("mean", label, 0),
      Ev("min", label, SeqMin(data)),
      Ev("max", label, SeqMax(data)),
      Ev("std", label, 0)>>

\* match_line taking the delay from group 2 (the frequency)
match_line_wrong_group(acc, line) ==
    IF line.text = "ptp4l"
    THEN [offsets |-> Append(acc.offsets, Float(line.g1)),
          delays |-> Append(acc.delays, Float(line.g2))]
    ELSE acc

\* main.py:67-73: one iteration of the line loop
match_line(acc, line) ==
    IF line.text = "ptp4l"
    THEN [offsets |-> Append(acc.offsets, Float(line.g1)),
          delays |-> Append(acc.delays, Float(line.g3))]
    ELSE acc

\* main.py:63-73: the line loop from line k on
RECURSIVE scan_lines(_, _, _)
scan_lines(lines, k, acc) ==
    IF k > Len(lines) THEN acc
    ELSE scan_lines(lines, k + 1, match_line(acc, lines[k]))

\* report returning a pair of empty sequences instead of None
report_empty_pair(offs, dels, name) ==
    IF offs # <<>> /\ dels # <<>>
    THEN [ret |-> Pair(offs, dels),
          out |-> print_stats(offs, "Offset") \o run_shapiro_wilk(offs, "Offsets")
                  \o print_stats(dels, "Delay") \o run_shapiro_wilk(dels, "Delays"),
          writes |-> <<create_offset_plot(offs, name), create_delay_plot(dels, name)>>]
    ELSE [ret |-> Pair(<<>>, <<>>),
          out |-> <<Ev("no_valid_data", "", 0)>>,
          writes |-> <<>>]

\* main.py:75-98: what parse_file does once the lines are scanned
report(offs, dels, name) ==
    IF offs # <<>> /\ dels # <<>>
    THEN [ret |-> Pair(offs, dels),
          out |-> print_stats(offs, "Offset") \o run_shapiro_wilk(offs, "Offsets")
                  \o print_stats(dels, "Delay") \o run_shapiro_wilk(dels, "Delays"),
          writes |-> <<create_offset_plot(offs, name), create_delay_plot(dels, name)>>]
    ELSE [ret |-> NoneResult,
          out |-> <<Ev("no_valid_data", "", 0)>>,
          writes |-> <<>>]

\* main.py:55-98: a whole call.  raised: open() failed and the error propagates.
parse_file(file, name) ==
    IF ~file.exists
    THEN [raised |-> TRUE, ret |-> NoneResult, out |-> <<>>, writes |-> <<>>]
    ELSE LET acc == scan_lines(file.lines, 1, [offsets |-> <<>>, delays |-> <<>>])
             r == report(acc.offsets, acc.delays, name)
         IN  [raised |-> FALSE, ret |-> r.ret, out |-> r.out, writes |-> r.writes]

\* main.py:112-119 and 133-140: the body of a parse loop for one host.  Unpacking
\* None into (offset, delay) raises TypeError before either dict is assigned.
host_body(offset_dict, delay_dict, name, file) ==
    LET r == parse_file(file, name)
    IN  IF r.raised
        THEN [offset_data |-> offset_dict, delay_data |-> delay_dict,
              out |-> <<Ev("host", name, 0)>> \o r.out
                      \o <<ErrEv(name, "FileNotFoundError")>>,
              writes |-> r.writes]
        ELSE IF r.ret.isNone
        THEN [offset_data |-> offset_dict, delay_data |-> delay_dict,
              out |-> <<Ev("host", name, 0)>> \o r.out \o <<ErrEv(name, "TypeError")>>,
              writes |-> r.writes]
        ELSE [offset_data |-> DictSet(offset_dict, name, r.ret.offset_data),
              delay_data |-> DictSet(delay_dict, name, r.ret.delay_data),
              out |-> <<Ev("host", name, 0)>> \o r.out \o <<Ev("blank", "", 0)>>,
              writes |-> r.writes]

----------------------------------------------------------------------------
(* The process: entry point and main() *)

Init ==
    /\ argc \in 1..MaxArgc
    /\ pc = "start"
    /\ experimental_path = "None"
    /\ i = 1
    /\ control_offset_data = <<>>
    /\ control_delay_data = <<>>
    /\ experimental_offset_data = <<>>
    /\ experimental_delay_data = <<>>
    /\ out = <<>>
    /\ plots = <<>>
    /\ opened = <<>>
    /\ mwu_calls = <<>>
    /\ exitCode = -1
    /\ uncaught = "none"
    /\ pf_pc = "idle"
    /\ pf_name = "Beta"
    /\ pf_file = Missing
    /\ pf_lines = <<>>
    /\ pf_k = 1
    /\ offsets = <<>>
    /\ delays = <<>>
    /\ pf_ret = NoneResult
    /\ sample = <<>>

\* main.py:153-155
Usage ==
    /\ pc = "start"
    /\ (argc > 4 \/ argc < 2)
    /\ out' = Append(out, Ev("usage", "", 0))
    /\ exitCode' = 1
    /\ pc' = "exited"
    /\ UNCHANGED <<argc, experimental_path, i, control_offset_data, control_delay_data,
                   experimental_offset_data, experimental_delay_data, plots, opened,
                   mwu_calls, uncaught>>
    /\ UNCHANGED unitVars

\* main.py:157-160 and 100-109: the call of main up to the first loop
CallMain ==
    /\ pc = "start"
    /\ ~(argc > 4 \/ argc < 2)
    /\ experimental_path' = IF argc = 2 THEN "None" ELSE "given"
    /\ control_offset_data' = <<>>
    /\ control_delay_data' = <<>>
    /\ i' = 1
    /\ pc' = "control"
    /\ UNCHANGED <<argc, experimental_offset_data, experimental_delay_data, out, plots,
                   opened, mwu_calls, exitCode, uncaught>>
    /\ UNCHANGED unitVars

\* the control loop with the try around the loop instead of inside it: the
\* first error ends the loop
ControlLoop_error_ends_loop ==
    /\ pc = "control"
    /\ i <= Len(Machines)
    /\ \E f \in ControlFiles :
          LET name == Machines[i]
              b == host_body(control_offset_data, control_delay_data, name, f)
          IN  /\ control_offset_data' = b.offset_data
              /\ control_delay_data' = b.delay_data
              /\ out' = out \o b.out
              /\ plots' = SaveAll(plots, b.writes)
              /\ opened' = Append(opened, [dir |-> "control", name |-> name, file |-> f])
              /\ i' = IF parse_file(f, name).raised THEN Len(Machines) + 1 ELSE i + 1
    /\ UNCHANGED <<argc, pc, experimental_path, experimental_offset_data,
                   experimental_delay_data, mwu_calls, exitCode, uncaught>>
    /\ UNCHANGED unitVars

\* main.py:111-119: one iteration of the control loop
ControlLoop ==
    /\ pc = "control"
    /\ i <= Len(Machines)
    /\ \E f \in ControlFiles :
          LET name == Machines[i]
              b == host_body(control_offset_data, control_delay_data, name, f)
          IN  /\ control_offset_data' = b.offset_data
              /\ control_delay_data' = b.delay_data
              /\ out' = out \o b.out
              /\ plots' = SaveAll(plots, b.writes)
              /\ opened' = Append(opened, [dir |-> "control", name |-> name, file |-> f])
    /\ i' = i + 1
    /\ UNCHANGED <<argc, pc, experimental_path, experimental_offset_data,
                   experimental_delay_data, mwu_calls, exitCode, uncaught>>
    /\ UNCHANGED unitVars

\* ControlDone without the test of experimental_path
ControlDone_always_experimental ==
    /\ pc = "control"
    /\ i > Len(Machines)
    /\ experimental_offset_data' = <<>>
    /\ experimental_delay_data' = <<>>
    /\ i' = 1
    /\ pc' = "experimental"
    /\ UNCHANGED <<argc, experimental_path, control_offset_data, control_delay_data,
                   out, plots, opened, mwu_calls, exitCode, uncaught>>
    /\ UNCHANGED unitVars

\* main.py:111 (loop exhausted), 121-130, and the return of main when
\* experimental_path is None
ControlDone ==
    /\ pc = "control"
    /\ i > Len(Machines)
    /\ IF experimental_path # "None"
       THEN /\ experimental_offset_data' = <<>>
            /\ experimental_delay_data' = <<>>
            /\ i' = 1
            /\ pc' = "experimental"
            /\ UNCHANGED exitCode
       ELSE /\ pc' = "exited"
            /\ exitCode' = 0
            /\ UNCHANGED <<i, experimental_offset_data, experimental_delay_data>>
    /\ UNCHANGED <<argc, experimental_path, control_offset_data, control_delay_data,
                   out, plots, opened, mwu_calls, uncaught>>
    /\ UNCHANGED unitVars

\* main.py:132-140: one iteration of the experimental loop
ExperimentalLoop ==
    /\ pc = "experimental"
    /\ i <= Len(Machines)
    /\ \E f \in ExperimentalFiles :
          LET name == Machines[i]
              b == host_body(experimental_offset_data, experimental_delay_data, name, f)
          IN  /\ experimental_offset_data' = b.offset_data
              /\ experimental_delay_data' = b.delay_data
              /\ out' = out \o b.out
              /\ plots' = SaveAll(plots, b.writes)
              /\ opened' = Append(opened,
                                  [dir |-> "experimental", name |-> name, file |-> f])
    /\ i' = i + 1
    /\ UNCHANGED <<argc, pc, experimental_path, control_offset_data,
                   control_delay_data, mwu_calls, exitCode, uncaught>>
    /\ UNCHANGED unitVars

\* main.py:132 (loop exhausted) and 142 (the compare loop starts)
ExperimentalDone ==
    /\ pc = "experimental"
    /\ i > Len(Machines)
    /\ pc' = "compare"
    /\ i' = 1
    /\ UNCHANGED <<argc, experimental_path, control_offset_data, control_delay_data,
                   experimental_offset_data, experimental_delay_data, out, plots,
                   opened, mwu_calls, exitCode, uncaught>>
    /\ UNCHANGED unitVars

\* main.py:142-149: one iteration of the compare loop.  The subscript
\* experimental_offset_data[name] raises KeyError when the key is absent; nothing
\* catches it, so the process ends with a traceback and status 1.
CompareLoop ==
    /\ pc = "compare"
    /\ i <= Len(DictKeys(control_offset_data))
    /\ LET name == DictKeys(control_offset_data)[i]
       IN  IF ~DictHas(experimental_offset_data, name)
           THEN /\ out' = out \o <<Ev("comparing", name, 0), Ev("blank", "", 0)>>
                /\ uncaught' = "KeyError"
                /\ exitCode' = 1
                /\ pc' = "exited"
                /\ UNCHANGED <<i, mwu_calls>>
           ELSE LET co == DictGet(control_offset_data, name)
                    eo == DictGet(experimental_offset_data, name)
                    cd == DictGet(control_delay_data, name)
                    ed == DictGet(experimental_delay_data, name)
                IN  /\ out' = out \o <<Ev("comparing", name, 0), Ev("blank", "", 0)>>
                               \o run_mannwhiteneyu_test(co, eo, name)
                               \o <<Ev("blank", "", 0), Ev("comparing", name, 1)>>
                               \o run_mannwhiteneyu_test(cd, ed, name)
                               \o <<Ev("blank", "", 0)>>
                    /\ mwu_calls' = mwu_calls \o
                          <<[name |-> name, metric |-> "Offsets", data1 |-> co, data2 |-> eo],
                            [name |-> name, metric |-> "Delays", data1 |-> cd, data2 |-> ed]>>
                    /\ i' = i + 1
                    /\ UNCHANGED <<pc, exitCode, uncaught>>
    /\ UNCHANGED <<argc, experimental_path, control_offset_data, control_delay_data,
                   experimental_offset_data, experimental_delay_data, plots, opened>>
    /\ UNCHANGED unitVars

\* main.py:142 (loop exhausted): main returns and the interpreter exits with 0
CompareDone ==
    /\ pc = "compare"
    /\ i > Len(DictKeys(control_offset_data))
    /\ pc' = "exited"
    /\ exitCode' = 0
    /\ UNCHANGED <<argc, experimental_path, i, control_offset_data, control_delay_data,
                   experimental_offset_data, experimental_delay_data, out, plots,
                   opened, mwu_calls, uncaught>>
    /\ UNCHANGED unitVars

Next ==
    \/ Usage
    \/ CallMain
    \/ ControlLoop
    \/ ControlDone
    \/ ExperimentalLoop
    \/ ExperimentalDone
    \/ CompareLoop
    \/ CompareDone

Spec == Init /\ [][Next]_vars

----------------------------------------------------------------------------
(* One call of parse_file, line by line; or one call of run_shapiro_wilk *)

SampleValues == {-5, 20}
Samples == SeqsUpTo(SampleValues, MaxSample)

InitUnit ==
    /\ argc = 2
    /\ pc = "unit"
    /\ experimental_path = "None"
    /\ i = 1
    /\ control_offset_data = <<>>
    /\ control_delay_data = <<>>
    /\ experimental_offset_data = <<>>
    /\ experimental_delay_data = <<>>
    /\ out = <<>>
    /\ plots = <<>>
    /\ opened = <<>>
    /\ mwu_calls = <<>>
    /\ exitCode = -1
    /\ uncaught = "none"
    /\ pf_lines = <<>>
    /\ pf_k = 1
    /\ offsets = <<>>
    /\ delays = <<>>
    /\ pf_ret = NoneResult
    /\ \/ /\ pf_pc = "open"
          /\ pf_name \in Hosts
          /\ pf_file \in UnitFiles
          /\ sample = <<>>
       \/ /\ pf_pc = "shapiro"
          /\ pf_name = "Beta"
          /\ pf_file = Missing
          /\ sample \in Samples

\* main.py:56-64: open and read the file; a failing open() raises to the caller
PfOpen ==
    /\ pf_pc = "open"
    /\ IF pf_file.exists
       THEN /\ pf_lines' = pf_file.lines
            /\ offsets' = <<>>
            /\ delays' = <<>>
            /\ pf_k' = 1
            /\ pf_pc' = "loop"
       ELSE /\ pf_pc' = "raised"
            /\ UNCHANGED <<pf_lines, offsets, delays, pf_k>>
    /\ UNCHANGED <<pf_name, pf_file, pf_ret, sample, out, plots>>
    /\ UNCHANGED mainVars

\* main.py:66-73: one iteration of the line loop
PfLine ==
    /\ pf_pc = "loop"
    /\ pf_k <= Len(pf_lines)
    /\ LET acc == match_line([offsets |-> offsets, delays |-> delays], pf_lines[pf_k])
       IN  /\ offsets' = acc.offsets
           /\ delays' = acc.delays
    /\ pf_k' = pf_k + 1
    /\ UNCHANGED <<pf_pc, pf_name, pf_file, pf_lines, pf_ret, sample, out, plots>>
    /\ UNCHANGED mainVars

\* main.py:75-98: the line loop is exhausted; report and return
PfReport ==
    /\ pf_pc = "loop"
    /\ pf_k > Len(pf_lines)
    /\ LET r == report(offsets, delays, pf_name)
       IN  /\ out' = out \o r.out
           /\ plots' = SaveAll(plots, r.writes)
           /\ pf_ret' = r.ret
    /\ pf_pc' = "returned"
    /\ UNCHANGED <<pf_name, pf_file, pf_lines, pf_k, offsets, delays, sample>>
    /\ UNCHANGED mainVars

\* main.py:30-43: a direct call of run_shapiro_wilk on sample
ShapiroCall ==
    /\ pf_pc = "shapiro"
    /\ out' = out \o run_shapiro_wilk(sample, "Offsets")
    /\ pf_pc' = "shapiro_returned"
    /\ UNCHANGED <<pf_name, pf_file, pf_lines, pf_k, offsets, delays, pf_ret, sample,
                   plots>>
    /\ UNCHANGED mainVars

NextUnit ==
    \/ PfOpen
    \/ PfLine
    \/ PfReport
    \/ ShapiroCall

SpecUnit == InitUnit /\ [][NextUnit]_vars

----------------------------------------------------------------------------
(* Vocabulary of the properties *)

\* the indices, in file order, of the matching lines among the first n lines
MatchedIdx(lines, n) ==
    SelectSeq([j \in 1..n |-> j], LAMBDA j : lines[j].text = "ptp4l")

\* the numbers the three matching lines of the model carry
OffsetOf(line) == CASE line = LineA -> -5 [] line = LineB -> 10 [] line = LineC -> 3
DelayOf(line) == CASE line = LineA -> 20 [] line = LineB -> 7 [] line = LineC -> 1

Printed(tag, label) == \E n \in DOMAIN out : out[n].tag = tag /\ out[n].label = label
PrintedTag(tag) == \E n \in DOMAIN out : out[n].tag = tag

OffsetPlot(name) == <<"plots", Lower(name), "offset">>
DelayPlot(name) == <<"plots", Lower(name), "delay">>

----------------------------------------------------------------------------
(* Properties of parse_file and run_shapiro_wilk (SpecUnit) *)

\* C5: at every point of parse_file's line loop and at its return, offsets and
\* delays have the same length, which is the number of lines matched so far, and
\* their m-th elements are the offset and the path delay of the m-th matching
\* line in file order; the returned pair is exactly these two sequences.
C5_PairsFollowLines ==
    pf_pc \in {"loop", "returned"} =>
        LET n == IF pf_pc = "loop" THEN pf_k - 1 ELSE Len(pf_lines)
            idx == MatchedIdx(pf_lines, n)
        IN  /\ Len(offsets) = Len(delays)
            /\ Len(offsets) = Len(idx)
            /\ \A m \in DOMAIN idx :
                  /\ offsets[m] = OffsetOf(pf_lines[idx[m]])
                  /\ delays[m] = DelayOf(pf_lines[idx[m]])
            /\ (pf_pc = "returned" /\ ~pf_ret.isNone) =>
                  /\ pf_ret.offset_data = offsets
                  /\ pf_ret.delay_data = delays

C5_Witness ==
    /\ pf_pc = "returned"
    /\ pf_lines = <<LineB, OtherLine, LineA>>
    /\ pf_ret = Pair(<<10, -5>>, <<7, 20>>)

\* C6: for a readable file without a matching line (an empty file included),
\* parse_file does not raise, and when it returns it has printed the
\* no-valid-data message and nothing else, returns None and has written no plot.
C6_NoMatchReturnsNone ==
    /\ pf_file.exists => pf_pc # "raised"
    /\ (pf_pc = "returned" /\ MatchedIdx(pf_lines, Len(pf_lines)) = <<>>) =>
          /\ pf_ret.isNone
          /\ out = <<Ev("no_valid_data", "", 0)>>
          /\ DOMAIN plots = {}

C6_Witness ==
    /\ pf_pc = "returned"
    /\ pf_file = File(<<OtherLine, OtherLine>>)
    /\ pf_ret.isNone

\* C8: run_shapiro_wilk runs the test iff the sample has at least 3 values; on a
\* smaller sample it prints only the not-enough-data message.  A parse_file call
\* that matched 1 or 2 lines still prints both statistics blocks, writes both
\* plots and returns the pair, with the test skipped for both metrics.
C8_ShapiroNeedsThree ==
    /\ pf_pc = "shapiro_returned" =>
          /\ Len(sample) >= 3 <=> Printed("shapiro_statistic", "Offsets")
          /\ Len(sample) >= 3 <=> Printed("shapiro_verdict", "Offsets")
          /\ Len(sample) < 3 => out = <<Ev("shapiro_not_enough_data", "Offsets", 0)>>
    /\ (pf_pc = "returned" /\ Len(offsets) >= 1) =>
          /\ Len(offsets) >= 3 <=> Printed("shapiro_statistic", "Offsets")
          /\ Len(delays) >= 3 <=> Printed("shapiro_statistic", "Delays")
          /\ Len(offsets) < 3 <=> Printed("shapiro_not_enough_data", "Offsets")
          /\ Len(delays) < 3 <=> Printed("shapiro_not_enough_data", "Delays")
          /\ Printed("stats", "Offset") /\ Printed("stats", "Delay")
          /\ DOMAIN plots = {OffsetPlot(pf_name), DelayPlot(pf_name)}
          /\ plots[OffsetPlot(pf_name)].data = offsets
          /\ plots[DelayPlot(pf_name)].data = delays
          /\ pf_ret = Pair(offsets, delays)

C8_Witness ==
    /\ pf_pc = "returned"
    /\ Len(offsets) = 2
    /\ Printed("shapiro_not_enough_data", "Delays")
    /\ ~pf_ret.isNone

----------------------------------------------------------------------------
(* Properties of the process (Spec) *)

HasMatch(file) == file.exists /\ MatchedIdx(file.lines, Len(file.lines)) # <<>>

OffsetsIn(file) ==
    LET idx == MatchedIdx(file.lines, Len(file.lines))
    IN  [m \in DOMAIN idx |-> OffsetOf(file.lines[idx[m]])]

DelaysIn(file) ==
    LET idx == MatchedIdx(file.lines, Len(file.lines))
    IN  [m \in DOMAIN idx |-> DelayOf(file.lines[idx[m]])]

OpenedIn(dir) == SelectSeq(opened, LAMBDA o : o.dir = dir)
NamesOf(os) == [n \in DOMAIN os |-> os[n].name]

MainCalled == pc \in {"control", "experimental", "compare"}
                 \/ (pc = "exited" /\ ~PrintedTag("usage"))

ErrorsLogged(name) == {n \in DOMAIN out : out[n].tag = "error" /\ out[n].label = name}

\* C1: with an argument count outside [2,3] the process prints the usage message
\* and exits with 1 without calling main; main runs only with a count of 2
\* (control path only) or 3 (control and experimental path).
C1_UsageOutsideTwoThree ==
    /\ (argc \notin {2, 3} /\ pc # "start") =>
          /\ pc = "exited"
          /\ exitCode = 1
          /\ out = <<Ev("usage", "", 0)>>
    /\ MainCalled => argc \in {2, 3}

\* C2: with a valid argument count, whatever the eight log files hold, main ends
\* without an uncaught exception and the process exits with 0.
C2_MainCompletes ==
    argc \in {2, 3} =>
        /\ uncaught = "none"
        /\ pc = "exited" => exitCode = 0

\* C3: when an experimental directory is supplied, by the end of the run the
\* comparator has been called exactly once for each of the four hosts and each
\* of the two metrics, on that host's control and experimental sequences of
\* that metric.
C3_ComparatorEveryHost ==
    (pc = "exited" /\ argc = 3) =>
        /\ \A h \in Hosts : \A m \in {"Offsets", "Delays"} :
              Cardinality({n \in DOMAIN mwu_calls :
                              mwu_calls[n].name = h /\ mwu_calls[n].metric = m}) = 1
        /\ \A n \in DOMAIN mwu_calls :
              LET c == mwu_calls[n]
                  cf == OpenedIn("control")[CHOOSE k \in 1..4 : Machines[k] = c.name].file
                  ef == OpenedIn("experimental")[CHOOSE k \in 1..4 : Machines[k] = c.name].file
              IN  IF c.metric = "Offsets"
                  THEN c.data1 = OffsetsIn(cf) /\ c.data2 = OffsetsIn(ef)
                  ELSE c.data1 = DelaysIn(cf) /\ c.data2 = DelaysIn(ef)

\* C4: each parse loop of main attempts parse_file for Beta, Charlie, Delta,
\* Echo in this order, all four of them whatever happens to any one of them, and
\* every failed open is logged as an error of its host.
C4_AllHostsAttempted ==
    LET c == OpenedIn("control")
        e == OpenedIn("experimental")
    IN  /\ NamesOf(c) = SubSeq(Machines, 1, Len(c))
        /\ NamesOf(e) = SubSeq(Machines, 1, Len(e))
        /\ pc = "control" => Len(c) = i - 1
        /\ (MainCalled /\ pc # "control") => Len(c) = Len(Machines)
        /\ pc = "experimental" => Len(e) = i - 1
        /\ (pc = "compare" \/ (pc = "exited" /\ argc \in {3, 4})) => Len(e) = Len(Machines)
        /\ \A h \in Hosts :
              Cardinality({n \in DOMAIN out : out[n] = ErrEv(h, "FileNotFoundError")})
                 = Cardinality({n \in DOMAIN opened :
                                   opened[n].name = h /\ ~opened[n].file.exists})

C4_Witness ==
    /\ pc = "exited"
    /\ Len(opened) = 8
    /\ ~opened[1].file.exists
    /\ ~opened[6].file.exists
    /\ HasMatch(opened[4].file)
    /\ HasMatch(opened[8].file)

\* C7: a host whose log file is readable but has no matching line is not an
\* error: the only "[host] Error" lines are those of files that could not be
\* opened.
C7_NoMatchIsNotAnError ==
    \A h \in Hosts :
        Cardinality(ErrorsLogged(h))
           = Cardinality({n \in DOMAIN opened :
                             opened[n].name = h /\ ~opened[n].file.exists})

\* C9: every control open precedes every experimental open; an experimental
\* file is opened only after all four control hosts were attempted; the
\* comparator runs only after all four experimental hosts were attempted; with
\* no experimental directory (argument count 2) no experimental file is opened
\* and the comparator never runs.
C9_StrictPhases ==
    /\ \A m, n \in DOMAIN opened :
          (opened[m].dir = "control" /\ opened[n].dir = "experimental") => m < n
    /\ OpenedIn("experimental") # <<>> => Len(OpenedIn("control")) = Len(Machines)
    /\ mwu_calls # <<>> => Len(OpenedIn("experimental")) = Len(Machines)
    /\ argc = 2 => (OpenedIn("experimental") = <<>> /\ mwu_calls = <<>>)

C9_Witness ==
    /\ pc = "exited"
    /\ Len(mwu_calls) = 8
    /\ Len(opened) = 8

\* C10: the plot files are among the eight plots/<host>-<metric>.png, and at any
\* time the two plots of a host exist iff some log of that host parsed so far
\* had matching lines, and then they show the offsets and the delays of the last
\* such log: the experimental parse overwrites what the control parse wrote.
C10_PlotsHoldLastDataset ==
    /\ DOMAIN plots \subseteq {OffsetPlot(h) : h \in Hosts} \cup {DelayPlot(h) : h \in Hosts}
    /\ Cardinality(DOMAIN plots) <= 8
    /\ \A h \in Hosts :
          LET S == {n \in DOMAIN opened : opened[n].name = h /\ HasMatch(opened[n].file)}
          IN  IF S = {}
              THEN OffsetPlot(h) \notin DOMAIN plots /\ DelayPlot(h) \notin DOMAIN plots
              ELSE LET last == CHOOSE n \in S : \A k \in S : k <= n
                   IN  /\ OffsetPlot(h) \in DOMAIN plots
                       /\ DelayPlot(h) \in DOMAIN plots
                       /\ plots[OffsetPlot(h)].data = OffsetsIn(opened[last].file)
                       /\ plots[DelayPlot(h)].data = DelaysIn(opened[last].file)

C10_Witness ==
    /\ pc = "exited"
    /\ Len(opened) = 8
    /\ opened[1].file = File(<<LineB, OtherLine, LineC>>)
    /\ opened[5].file = File(<<LineC, LineA>>)
    /\ plots[OffsetPlot("Beta")].data = <<3, -5>>
    /\ plots[DelayPlot("Beta")].data = <<1, 20>>
    /\ Cardinality(DOMAIN plots) = 8

====
